---- MODULE Spec2Model ----
(***************************************************************************)
(* A model of gopayloader's worker package (pkgs/payloader/worker) and of  *)
(* its configuration validation (package config).                          *)
(*                                                                         *)
(*   Spec          C goroutines executing WorkerFixedReqs.Run against the  *)
(*                 shared start trigger and cancellation context.          *)
(*   SpecNewWorker a process calling worker.NewWorker repeatedly, with the *)
(*                 package-level request/response pools.                   *)
(*   SpecValidate  config.Config.Validate applied to a configuration.      *)
(***************************************************************************)
EXTENDS Integers, Sequences, FiniteSets, TLC

\* ------------------------------------------------------------------ bounds

\* Number of worker goroutines (connections) of one dispatch.
NumWorkers == 2

\* Largest per-worker request budget (worker.Config.Reqs) explored.
MaxReqs == 2

Workers == 1..NumWorkers

VARIABLES
    \* --- one dispatch of fixed-request workers
    Verbose,        \* worker.Config.Verbose, shared by the dispatch
    Reqs,           \* worker.Config.Reqs, the budget of each worker
    startTrigger,   \* counter of the sync.WaitGroup Config.StartTrigger
    ctxDone,        \* TRUE once Config.Ctx is cancelled (Ctx.Done() closed)
    pc,             \* pc[w]: position of worker w inside Run
    i,              \* i[w]: the loop variable of the loop w is in
    began,          \* began[w]: number of calls of w.run() begun
    beganAfterDone, \* began[w] restricted to calls begun after cancellation
    outcome,        \* outcome[w]: how the last run() of worker w ended
    wg,             \* counter of the dispatcher's sync.WaitGroup
    \* --- the worker package's globals and the result of the last NewWorker
    requestPool,    \* nil, or the *Config captured by requestPool's New
    responsePool,   \* nil, or the pool
    worker,         \* nil, or the Worker the last NewWorker returned
    newErr,         \* TRUE iff the last NewWorker returned an error
    \* --- a config.Config and the result of its Validate
    cfg,            \* the fields of the config.Config
    verr            \* "unvalidated", "nil", or the error Validate returned

runVars == <<Verbose, Reqs, startTrigger, ctxDone, pc, i, began,
             beganAfterDone, outcome, wg>>

poolVars == <<requestPool, responsePool, worker, newErr>>

validateVars == <<cfg, verr>>

vars == <<runVars, poolVars, validateVars>>

\* A nil pointer is the empty sequence; a non-nil one is the one-element
\* sequence of what it points to.
NilPool == <<>>
NoWorker == <<>>
NoReq == <<>>

\* ------------------------------------------------------------------ strings

\* Go strings are modelled as sequences of one-character strings.
Digits == {"0", "1", "2", "3", "4", "5", "6", "7", "8", "9"}
Letters == {"a", "b", "f", "h", "p", "s", "t", "x", "y"}

\* strings.HasPrefix(s[k-1:], p), with k a 1-based position.
HasAt(s, k, p) ==
    /\ k >= 1
    /\ k + Len(p) - 1 <= Len(s)
    /\ \A j \in 1..Len(p) : s[k + j - 1] = p[j]

\* s[k-1:]
From(s, k) == SubSeq(s, k, Len(s))

\* strings.Index(s, c) + 1 for a one-character c; 0 when c does not occur.
IndexOf(s, c) ==
    IF \E j \in 1..Len(s) : s[j] = c
      THEN CHOOSE j \in 1..Len(s) :
             s[j] = c /\ \A k \in 1..(j - 1) : s[k] # c
      ELSE 0

\* strings.LastIndex(s, c) + 1 for a one-character c; 0 when c does not occur.
LastIndexOf(s, c) ==
    IF \E j \in 1..Len(s) : s[j] = c
      THEN CHOOSE j \in 1..Len(s) :
             s[j] = c /\ \A k \in (j + 1)..Len(s) : s[k] # c
      ELSE 0

uriA == <<"h","t","t","p",":","/","/","a",":","8","0","/","x">>
uriB == <<"h","t","t","p","s",":","/","/","b",":","4","4","3","/","y">>
uriNoPort == <<"h","t","t","p",":","/","/","a","/","x">>
uriNoScheme == <<"a",".","b","/","x">>

\* ------------------------------------------------------ url.ParseRequestURI

\* net/url getScheme: the position of the ':' that ends a valid scheme, 0 when
\* the string has no scheme, and -1 for the error "missing protocol scheme".
SchemeEnd(s) ==
    LET Stop(j) == ~(s[j] \in Letters \/ (j > 1 /\ s[j] \in Digits \cup {"+", "-", "."}))
        stops == {j \in 1..Len(s) : Stop(j)}
        first == IF stops = {} THEN 0
                 ELSE CHOOSE j \in stops : \A k \in stops : j <= k
    IN  IF first = 0 THEN 0
        ELSE IF s[first] = ":" THEN (IF first = 1 THEN -1 ELSE first)
        ELSE 0

\* net/url validOptionalPort: "" or ":" followed by digits only.
ValidOptionalPort(port) ==
    \/ port = <<>>
    \/ /\ port[1] = ":"
       /\ \A j \in 2..Len(port) : port[j] \in Digits

\* net/url parseHost, for hosts that are not IPv6 literals.
ParseHostOK(host) ==
    LET c == LastIndexOf(host, ":")
    IN  c = 0 \/ ValidOptionalPort(From(host, c))

\* url.ParseRequestURI(rawURL) returns no error.
ParseRequestURIOK(rawURL) ==
    LET e == SchemeEnd(rawURL)
        scheme == IF e > 0 THEN SubSeq(rawURL, 1, e - 1) ELSE <<>>
        rest0 == IF e > 0 THEN From(rawURL, e + 1) ELSE rawURL
        q == IndexOf(rest0, "?")
        rest == IF q = 0 THEN rest0 ELSE SubSeq(rest0, 1, q - 1)
        auth0 == From(rest, 3)
        sl == IndexOf(auth0, "/")
        authority == IF sl = 0 THEN auth0 ELSE SubSeq(auth0, 1, sl - 1)
    IN  \/ rawURL = <<"*">>
        \/ /\ rawURL # <<>>
           /\ e # -1
           /\ IF ~HasAt(rest, 1, <<"/">>)
                THEN scheme # <<>>
                ELSE (scheme # <<>> /\ HasAt(rest, 1, <<"/", "/">>))
                       => ParseHostOK(authority)

\* The worker package before any NewWorker call: both pools are nil.
InitPool ==
    /\ requestPool = NilPool
    /\ responsePool = NilPool
    /\ worker = NoWorker
    /\ newErr = FALSE

\* No config.Config is being validated.
IdleValidate ==
    /\ cfg = <<>>
    /\ verr = "unvalidated"

\* ---------------------------------------------------- WorkerFixedReqs.Run

\* The state in which the dispatcher has added itself to the start trigger,
\* added every worker to wg and started `go w.Run(wg)` for each of them.
InitRun ==
    /\ Verbose \in BOOLEAN
    /\ Reqs \in 0..MaxReqs
    /\ startTrigger = 1
    /\ ctxDone = FALSE
    /\ pc = [w \in Workers |-> "wait"]
    /\ i = [w \in Workers |-> 0]
    /\ began = [w \in Workers |-> 0]
    /\ beganAfterDone = [w \in Workers |-> 0]
    /\ outcome = [w \in Workers |-> "none"]
    /\ wg = NumWorkers

\* Dispatcher: StartTrigger.Done(), releasing every waiting worker.
Release ==
    /\ startTrigger > 0
    /\ startTrigger' = startTrigger - 1
    /\ UNCHANGED <<Verbose, Reqs, ctxDone, pc, i, began, beganAfterDone,
                   outcome, wg>>
    /\ UNCHANGED <<poolVars, validateVars>>

\* Signal handler / programmatic stop: the context is cancelled.
Cancel ==
    /\ ~ctxDone
    /\ ctxDone' = TRUE
    /\ UNCHANGED <<Verbose, Reqs, startTrigger, pc, i, began, beganAfterDone,
                   outcome, wg>>
    /\ UNCHANGED <<poolVars, validateVars>>

\* `return` from Run: the deferred wg.Done() runs.
ReturnMutNoDone(w) ==
    /\ pc' = [pc EXCEPT ![w] = "done"]
    /\ UNCHANGED wg

Return(w) ==
    /\ pc' = [pc EXCEPT ![w] = "done"]
    /\ wg' = wg - 1

\* w.config.StartTrigger.Wait(), then the test of w.config.Verbose.
WaitMutNoBarrier(w) ==
    /\ pc[w] = "wait"
    /\ pc' = [pc EXCEPT ![w] = IF Verbose THEN "vloop" ELSE "loop"]
    /\ i' = [i EXCEPT ![w] = 0]
    /\ UNCHANGED <<Verbose, Reqs, startTrigger, ctxDone, began,
                   beganAfterDone, outcome, wg>>
    /\ UNCHANGED <<poolVars, validateVars>>

Wait(w) ==
    /\ pc[w] = "wait"
    /\ startTrigger = 0
    /\ pc' = [pc EXCEPT ![w] = IF Verbose THEN "vloop" ELSE "loop"]
    /\ i' = [i EXCEPT ![w] = 0]
    /\ UNCHANGED <<Verbose, Reqs, startTrigger, ctxDone, began,
                   beganAfterDone, outcome, wg>>
    /\ UNCHANGED <<poolVars, validateVars>>

\* Top of the verbose loop: `i < Reqs`, then the select on Ctx.Done().
\* When the loop ends, control falls through to the second loop (`var i`).
VLoopTop(w) ==
    /\ pc[w] = "vloop"
    /\ IF i[w] < Reqs
         THEN IF ctxDone
                THEN Return(w) /\ UNCHANGED i
                ELSE pc' = [pc EXCEPT ![w] = "vcall"] /\ UNCHANGED <<i, wg>>
         ELSE /\ pc' = [pc EXCEPT ![w] = "loop"]
              /\ i' = [i EXCEPT ![w] = 0]
              /\ UNCHANGED wg
    /\ UNCHANGED <<Verbose, Reqs, startTrigger, ctxDone, began,
                   beganAfterDone, outcome>>
    /\ UNCHANGED <<poolVars, validateVars>>

\* Top of the second loop: `i < Reqs`, then the select on Ctx.Done().
LoopTopMutIgnoreCtx(w) ==
    /\ pc[w] = "loop"
    /\ IF i[w] < Reqs
         THEN pc' = [pc EXCEPT ![w] = "call"] /\ UNCHANGED wg
         ELSE Return(w)
    /\ UNCHANGED <<Verbose, Reqs, startTrigger, ctxDone, i, began,
                   beganAfterDone, outcome>>
    /\ UNCHANGED <<poolVars, validateVars>>

LoopTop(w) ==
    /\ pc[w] = "loop"
    /\ IF i[w] < Reqs
         THEN IF ctxDone
                THEN Return(w)
                ELSE pc' = [pc EXCEPT ![w] = "call"] /\ UNCHANGED wg
         ELSE Return(w)
    /\ UNCHANGED <<Verbose, Reqs, startTrigger, ctxDone, i, began,
                   beganAfterDone, outcome>>
    /\ UNCHANGED <<poolVars, validateVars>>

\* The `default:` branch was taken: w.run() is called.
RunCall(w) ==
    /\ pc[w] \in {"vcall", "call"}
    /\ pc' = [pc EXCEPT ![w] = IF pc[w] = "vcall" THEN "vrun" ELSE "run"]
    /\ began' = [began EXCEPT ![w] = @ + 1]
    /\ beganAfterDone' = [beganAfterDone EXCEPT
                            ![w] = IF ctxDone THEN @ + 1 ELSE @]
    /\ UNCHANGED <<Verbose, Reqs, startTrigger, ctxDone, i, outcome, wg>>
    /\ UNCHANGED <<poolVars, validateVars>>

\* w.run() returns, after a success or an error; then `i++`.
RunReturn(w) ==
    /\ pc[w] \in {"vrun", "run"}
    /\ \E result \in {"ok", "error"} :
         outcome' = [outcome EXCEPT ![w] = result]
    /\ i' = [i EXCEPT ![w] = @ + 1]
    /\ pc' = [pc EXCEPT ![w] = IF pc[w] = "vrun" THEN "vloop" ELSE "loop"]
    /\ UNCHANGED <<Verbose, Reqs, startTrigger, ctxDone, began,
                   beganAfterDone, wg>>
    /\ UNCHANGED <<poolVars, validateVars>>

Run(w) ==
    \/ Wait(w)
    \/ VLoopTop(w)
    \/ LoopTop(w)
    \/ RunCall(w)
    \/ RunReturn(w)

NextRun ==
    \/ Release
    \/ Cancel
    \/ \E w \in Workers : Run(w)

Init == InitRun /\ InitPool /\ IdleValidate

Spec == Init /\ [][NextRun]_vars

\* ------------------------------------------------- claims on the Run loops

\* C1: a worker with budget Reqs = n that is never cancelled has made exactly
\* n calls of run() when Run returns, with Verbose set or not and whatever
\* the outcome of each request.
C1_ExactlyReqsCalls ==
    \A w \in Workers :
        (pc[w] = "done" /\ ~ctxDone) =>
            began[w] = Reqs

\* C2: no worker has left StartTrigger.Wait, and so none has begun a request
\* in either loop, while the start trigger is still held by the dispatcher.
C2_NoEarlyStart ==
    \A w \in Workers :
        (pc[w] # "wait" \/ began[w] > 0) => startTrigger = 0

C2_Witness ==
    /\ startTrigger = 0
    /\ \E w \in Workers : pc[w] \in {"vrun", "run"} /\ began[w] = 1
    /\ \E w \in Workers : pc[w] = "wait"

\* C3: once the context is done a worker begins at most one further request
\* (the one whose select preceded the cancellation), and a worker that
\* reaches the top of either loop with budget left returns instead of
\* calling run().
C3_CancelPolled ==
    /\ [](\A w \in Workers : beganAfterDone[w] <= 1)
    /\ [][\A w \in Workers :
            (/\ ctxDone
             /\ pc[w] \in {"vloop", "loop"}
             /\ i[w] < Reqs
             /\ pc'[w] # pc[w]) => (pc'[w] = "done" /\ began'[w] = began[w])]_vars

C3_Witness ==
    /\ Verbose
    /\ \E w \in Workers :
        /\ pc[w] = "done"
        /\ beganAfterDone[w] = 1
        /\ began[w] < Reqs
    /\ \E w \in Workers :
        /\ pc[w] = "done"
        /\ beganAfterDone[w] = 0
        /\ began[w] < Reqs

\* The Go scheduler runs a goroutine that can take a step, and run() returns
\* (each request ends, at the latest by its timeouts).  Nothing is asked of
\* the dispatcher or of cancellation: the trigger may stay held, and the
\* context may or may not be cancelled.  Of the scheduler it is asked only
\* that it does not stop while some worker can take a step.
SpecLive ==
    /\ Init
    /\ [][NextRun]_vars
    /\ WF_vars(\E w \in Workers : Run(w))

\* C11: Run signals the dispatcher's wait group exactly once on every way out
\* (budget exhausted, cancellation seen in the verbose loop, cancellation
\* seen in the second loop): the counter goes down by one when a worker
\* leaves Run and at no other step, and a worker that left stays out.  Once
\* the start trigger is released every worker finishes and the counter
\* reaches zero, which ends the dispatcher's wait.
C11_WaitGroupDone ==
    /\ [][/\ \A w \in Workers :
              /\ (pc[w] # "done" /\ pc'[w] = "done") => wg' = wg - 1
              /\ pc[w] = "done" => pc'[w] = "done"
          /\ wg' # wg => \E w \in Workers : pc[w] # "done" /\ pc'[w] = "done"]_vars
    /\ (startTrigger = 0) ~> (wg = 0 /\ \A w \in Workers : pc[w] = "done")

C11_Witness ==
    /\ wg = 0
    /\ ctxDone
    /\ \A w \in Workers : pc[w] = "done"
    /\ \E w \in Workers : began[w] = Reqs /\ Reqs > 0
    /\ \E w \in Workers : began[w] < Reqs

\* ---------------------------------------------------------------- NewWorker

\* Largest worker.Config.Reqs and worker.Config.Until given to NewWorker.
MaxWorkerReqs == 1
MaxUntil == 1

\* The worker.Config values NewWorker is called with.  None of them names a
\* client certificate (MTLSCert = MTLSKey = "") or asks for HTTP/2, so that
\* getClient fails exactly when the request URI does not parse.
WorkerConfigs ==
    [ ReqURI : {uriA, uriB, uriNoScheme},
      DisableKeepAlive : BOOLEAN,
      Method : {"GET", "POST"},
      Reqs : 0..MaxWorkerReqs,
      Until : -1..MaxUntil,
      MTLSCert : {<<>>},
      MTLSKey : {<<>>},
      HTTPV2 : {FALSE} ]

\* Config.TimeLimited
TimeLimited(c) == c.Until # 0

\* Config.UnlimitedReqs
UnlimitedReqsMutAnyReqs(c) == c.Until # 0

UnlimitedReqs(c) == c.Until # 0 /\ c.Reqs = 0

\* tls.LoadX509KeyPair fails: no file is readable under the paths explored.
LoadX509KeyPairFails(cert, key) == TRUE

\* http2.ConfigureClient fails: the handshake with the target is not modelled,
\* and no config explored asks for HTTP/2.
ConfigureClientFails(c) == FALSE

\* getClient returns an error.
GetClientFails(c) ==
    \/ /\ c.MTLSCert # <<>>
       /\ c.MTLSKey # <<>>
       /\ LoadX509KeyPairFails(c.MTLSCert, c.MTLSKey)
    \/ ~ParseRequestURIOK(c.ReqURI)
    \/ c.HTTPV2 /\ ConfigureClientFails(c)

\* The New function of requestPool, a closure over the config of the
\* NewWorker call that created the pool.  A fasthttp.Request whose method was
\* never set reports GET.
RequestPoolNew(captured) ==
    [ connectionClose |-> captured.DisableKeepAlive,
      methodBytes |-> IF captured.Method # "GET" THEN captured.Method ELSE "",
      requestURI |-> captured.ReqURI ]

\* fasthttp.RequestHeader.Method
RequestMethod(req) == IF req.methodBytes = "" THEN "GET" ELSE req.methodBytes

\* The type of worker NewWorker returns for a config.
WorkerType(c) ==
    IF ~TimeLimited(c) THEN "WorkerFixedReqs"
    ELSE IF UnlimitedReqs(c) THEN "WorkerFixedTime"
    ELSE "WorkerFixedTimeRequests"

NewWorker(config) ==
    /\ IF GetClientFails(config)
         THEN /\ worker' = NoWorker
              /\ newErr' = TRUE
              /\ UNCHANGED <<requestPool, responsePool>>
         ELSE /\ responsePool' = IF responsePool = NilPool THEN <<"pool">>
                                 ELSE responsePool
              /\ requestPool' = IF requestPool = NilPool THEN <<config>>
                                ELSE requestPool
              /\ worker' = <<[config |-> config, type |-> WorkerType(config),
                              req |-> NoReq]>>
              /\ newErr' = FALSE
    /\ UNCHANGED <<runVars, validateVars>>

\* The worker takes its request object from the pool: requestPool.Get(),
\* which hands out an object made by the pool's New function.
AcquireRequest ==
    /\ worker # NoWorker
    /\ worker[1].req = NoReq
    /\ worker' = <<[worker[1] EXCEPT !.req = <<RequestPoolNew(requestPool[1])>>]>>
    /\ UNCHANGED <<requestPool, responsePool, newErr>>
    /\ UNCHANGED <<runVars, validateVars>>

NextNewWorker ==
    \/ \E config \in WorkerConfigs : NewWorker(config)
    \/ AcquireRequest

\* A dispatch that never calls NewWorker again leaves the globals alone.
IdleRun ==
    /\ Verbose = FALSE
    /\ Reqs = 0
    /\ startTrigger = 1
    /\ ctxDone = FALSE
    /\ pc = [w \in Workers |-> "wait"]
    /\ i = [w \in Workers |-> 0]
    /\ began = [w \in Workers |-> 0]
    /\ beganAfterDone = [w \in Workers |-> 0]
    /\ outcome = [w \in Workers |-> "none"]
    /\ wg = NumWorkers

InitNewWorker == IdleRun /\ InitPool /\ IdleValidate

SpecNewWorker == InitNewWorker /\ [][NextNewWorker]_vars

\* C4: NewWorker returns a fixed-requests worker when D = 0 and R > 0, a
\* fixed-time worker when D > 0 and R = 0 and a fixed-time-requests worker
\* when D > 0 and R > 0.
C4_TerminationMode ==
    worker # NoWorker =>
        LET D == worker[1].config.Until
            R == worker[1].config.Reqs
            type == worker[1].type
        IN  /\ (D = 0 /\ R > 0) => type = "WorkerFixedReqs"
            /\ (D > 0 /\ R = 0) => type = "WorkerFixedTime"
            /\ (D > 0 /\ R > 0) => type = "WorkerFixedTimeRequests"

C4_Witness ==
    /\ worker # NoWorker
    /\ worker[1].config.Until > 0
    /\ worker[1].config.Reqs > 0
    /\ worker[1].type = "WorkerFixedTimeRequests"

\* C10: every request object a worker is given carries the method and the
\* target URI of the Config the worker was created with, and the
\* `Connection: close` header exactly when that Config sets DisableKeepAlive.
C10_TemplateOfOwnConfig ==
    (worker # NoWorker /\ worker[1].req # NoReq) =>
        LET req == worker[1].req[1]
            config == worker[1].config
        IN  /\ RequestMethod(req) = config.Method
            /\ req.requestURI = config.ReqURI
            /\ req.connectionClose = config.DisableKeepAlive

\* ---------------------------------------------------------- Config.Validate

\* Width of the machine word of the model: Go's uint and int64 are IntBits
\* bits wide (64 in a build for amd64), so that int64(c.Conns) wraps as the
\* conversion does.
IntBits == 3

\* Largest ordinary connection count and request target explored.
MaxConns == 2
MaxReqTarget == 2

MaxUint == 2^IntBits - 1
MaxInt == 2^(IntBits - 1) - 1

\* int64(u) for a uint u: the same bits, read as a signed number.
Int64OfUint(u) == IF u > MaxInt THEN u - 2^IntBits ELSE u

\* A time.Duration is explored by its sign: negative, zero, positive.
TimeValues == {-1, 0, 1}

uriFtp == <<"f","t","p",":","/","/","a","/","h","t","t","p",":","/","/","b",":","8","0">>
uriBadPort == <<"h","t","t","p",":","/","/","a",":","8","x">>
uriNoHost == <<"h","t","t","p",":","/","/",":","8","0","/","x">>

hdrOK == <<"a",":","b">>
hdrNoColon == <<"a","b">>

\* The files present on the machine; any other non-empty path does not exist.
ExistingFiles == {"client.key", "client.crt", "jwt.key", "jwts.txt", "body.json"}

\* os.OpenFile(path, os.O_RDONLY, os.ModePerm) returns no error.
OpenFileOK(path) == path \in ExistingFiles

\* regExHostURI.MatchString(s), for regEx = `https?:\/\/(.)*(?::\d+)`: the
\* match is not anchored; `.` matches any character but a newline.
PortFollows(s, k) ==
    \E q \in k..(Len(s) - 1) :
        /\ s[q] = ":"
        /\ s[q + 1] \in Digits
        /\ \A j \in k..(q - 1) : s[j] # "\n"

RegExHostURIMatchMutOptionalPort(s) ==
    \E k \in 1..Len(s) :
        \/ HasAt(s, k, <<"h","t","t","p",":","/","/">>)
        \/ HasAt(s, k, <<"h","t","t","p","s",":","/","/">>)

RegExHostURIMatch(s) ==
    \E k \in 1..Len(s) :
        \/ HasAt(s, k, <<"h","t","t","p",":","/","/">>) /\ PortFollows(s, k + 7)
        \/ HasAt(s, k, <<"h","t","t","p","s",":","/","/">>) /\ PortFollows(s, k + 8)

\* strings.Contains(h, ":")
ContainsColon(h) == \E j \in 1..Len(h) : h[j] = ":"

allowedMethods == {"GET", "PUT", "POST", "DELETE"}

methodAllowed(method) == method \in allowedMethods

\* JwtCustomClaimsJSONStringToMap returns no error: the text is the JSON of an
\* object (or null), of the texts explored.
JwtCustomClaimsParse(json) == json \in {"", "{}", "{\"role\":\"admin\"}", "null"}

\* Lines 217-261 of Validate: the request URI, the connection limit, the
\* mTLS files and the JWT header.  "nil" when every check passes.
ValidateHead(c) ==
    IF ~ParseRequestURIOK(c.ReqURI) THEN "config: invalid request uri"
    ELSE IF Int64OfUint(c.Conns) > c.ReqTarget /\ c.Duration = 0
      THEN "connections can't be more than requests"
    ELSE IF Int64OfUint(c.Conns) > c.ReqTarget /\ c.ReqTarget # 0 /\ c.Duration # 0
      THEN "connections can't be more than requests"
    ELSE IF c.Conns = 0 THEN "0 connections not allowed"
    ELSE IF ~RegExHostURIMatch(c.ReqURI) THEN "url not in correct format"
    ELSE IF c.MTLSKey # "" /\ ~OpenFileOK(c.MTLSKey)
      THEN "config: mTLS private key does not exist"
    ELSE IF c.MTLSCert # "" /\ ~OpenFileOK(c.MTLSCert)
      THEN "config: mTLS cert does not exist"
    ELSE IF (c.JwtsFilename # "" \/ c.JwtKey # "") /\ c.JwtHeader = ""
      THEN "config: empty jwt header"
    ELSE IF c.JwtHeader # "" /\ c.JwtsFilename = "" /\ c.JwtKey = ""
      THEN "config: empty jwt filename and jwt key"
    ELSE "nil"

\* Lines 263-275: the JWT key.
ValidateJwtKey(c) ==
    IF c.JwtKey = "" THEN "nil"
    ELSE IF ~OpenFileOK(c.JwtKey) THEN "config: jwt key does not exist"
    ELSE IF c.ReqTarget = 0
      THEN "can only send jwts when request number is specified"
    ELSE "nil"

\* Lines 277-289: the file of JWTs.
ValidateJwtsFilenameMutNoTarget(c) ==
    IF c.JwtsFilename = "" THEN "nil"
    ELSE IF ~OpenFileOK(c.JwtsFilename) THEN "config: jwt file does not exist"
    ELSE "nil"

ValidateJwtsFilename(c) ==
    IF c.JwtsFilename = "" THEN "nil"
    ELSE IF ~OpenFileOK(c.JwtsFilename) THEN "config: jwt file does not exist"
    ELSE IF c.ReqTarget = 0
      THEN "can only send jwts when request number is specified"
    ELSE "nil"

\* Lines 291-335: headers, body file, ticker, method, timeouts, budgets and
\* the custom claims.
ValidateTail(c) ==
    IF \E k \in 1..Len(c.Headers) : ~ContainsColon(c.Headers[k])
      THEN "header does not contain :"
    ELSE IF c.BodyFile # "" /\ ~OpenFileOK(c.BodyFile)
      THEN "config: body file does not exist"
    ELSE IF c.VerboseTicker = 0 THEN "ticker value can't be zero"
    ELSE IF ~methodAllowed(c.Method) THEN "method not allowed"
    ELSE IF c.WriteTimeout = 0 THEN "write timeout is zero"
    ELSE IF c.ReadTimeout = 0 THEN "read timeout is zero"
    ELSE IF c.ReqTarget = 0 /\ c.Duration = 0
      THEN "config: ReqTarget 0 and Duration 0"
    ELSE IF c.JwtCustomClaimsJSON # "" /\ ~JwtCustomClaimsParse(c.JwtCustomClaimsJSON)
      THEN "config: failed to parse custom json in --jwt-claims"
    ELSE "nil"

\* The error Validate returns: that of the first check that fails.
ValidateError(c) ==
    IF ValidateHead(c) # "nil" THEN ValidateHead(c)
    ELSE IF ValidateJwtKey(c) # "nil" THEN ValidateJwtKey(c)
    ELSE IF ValidateJwtsFilename(c) # "nil" THEN ValidateJwtsFilename(c)
    ELSE ValidateTail(c)

\* c.SendJWT when Validate returns: set once the JWT key, or the file of JWTs,
\* has passed its checks, whatever a later check finds.
SendJWTAfter(c) ==
    \/ c.SendJWT
    \/ /\ ValidateHead(c) = "nil"
       /\ ValidateJwtKey(c) = "nil"
       /\ \/ c.JwtKey # ""
          \/ c.JwtsFilename # "" /\ ValidateJwtsFilename(c) = "nil"

\* The fields explored in full combination.
CoreFields ==
    [ ReqURI : {uriA, uriB, uriNoPort, uriNoScheme, uriFtp, uriBadPort, uriNoHost},
      Conns : (0..MaxConns) \cup {MaxUint},
      ReqTarget : -1..MaxReqTarget,
      Duration : TimeValues,
      JwtKey : {"", "jwt.key"},
      JwtsFilename : {"", "jwts.txt", "absent.txt"},
      JwtHeader : {"", "Authorization"},
      Verbose : BOOLEAN,
      VerboseTicker : {0, 1},
      WriteTimeout : TimeValues,
      ReadTimeout : TimeValues ]

\* The other fields: each departs from a config that passes their checks in
\* one field at a time.
RestOK ==
    [ MTLSKey |-> "", MTLSCert |-> "", Headers |-> <<>>, BodyFile |-> "",
      Method |-> "GET", JwtCustomClaimsJSON |-> "" ]

RestFields ==
    {RestOK}
      \cup {[RestOK EXCEPT !.MTLSKey = f] : f \in {"client.key", "absent.key"}}
      \cup {[RestOK EXCEPT !.MTLSCert = f] : f \in {"client.crt", "absent.crt"}}
      \cup {[RestOK EXCEPT !.Headers = h] : h \in {<<hdrOK>>, <<hdrOK, hdrNoColon>>}}
      \cup {[RestOK EXCEPT !.BodyFile = f] : f \in {"body.json", "absent.json"}}
      \cup {[RestOK EXCEPT !.Method = m] : m \in {"POST", "PATCH"}}
      \cup {[RestOK EXCEPT !.JwtCustomClaimsJSON = j] : j \in {"{}", "[1]"}}

\* Core fields whose URI and timing pass, for the configs that vary the rest.
PlainCore ==
    {c \in CoreFields :
        /\ c.ReqURI = uriA
        /\ ~c.Verbose /\ c.VerboseTicker = 1
        /\ c.WriteTimeout = 1 /\ c.ReadTimeout = 1}

\* NewConfig: every field from its argument; SendJWT is left false.
NewConfig(core, rest) ==
    [ ReqURI |-> core.ReqURI, Conns |-> core.Conns,
      ReqTarget |-> core.ReqTarget, Duration |-> core.Duration,
      JwtKey |-> core.JwtKey, JwtsFilename |-> core.JwtsFilename,
      JwtHeader |-> core.JwtHeader, Verbose |-> core.Verbose,
      VerboseTicker |-> core.VerboseTicker,
      WriteTimeout |-> core.WriteTimeout, ReadTimeout |-> core.ReadTimeout,
      MTLSKey |-> rest.MTLSKey, MTLSCert |-> rest.MTLSCert,
      Headers |-> rest.Headers, BodyFile |-> rest.BodyFile,
      Method |-> rest.Method, JwtCustomClaimsJSON |-> rest.JwtCustomClaimsJSON,
      SendJWT |-> FALSE ]

InitValidate ==
    /\ \/ \E core \in CoreFields : cfg = NewConfig(core, RestOK)
       \/ \E core \in PlainCore, rest \in RestFields : cfg = NewConfig(core, rest)
    /\ verr = "unvalidated"

Validate ==
    /\ verr = "unvalidated"
    /\ verr' = ValidateError(cfg)
    /\ cfg' = [cfg EXCEPT !.SendJWT = SendJWTAfter(cfg)]
    /\ UNCHANGED <<runVars, poolVars>>

NextValidate == Validate

InitConfig == IdleRun /\ InitPool /\ InitValidate

SpecValidate == InitConfig /\ [][NextValidate]_vars

\* ------------------------------------------------------ claims on Validate

Validated == verr # "unvalidated"
Accepted == verr = "nil"
Rejected == Validated /\ verr # "nil"
errConnLimit == "connections can't be more than requests"

\* The budgets and the timing fields of cfg are in the range the
\* specification gives them; the statements below that TLC refutes are made
\* of such configs only, so that no refutation rests on another one.
BudgetsInRange == cfg.ReqTarget >= 0 /\ cfg.Duration >= 0
TimingInRange ==
    cfg.ReadTimeout > 0 /\ cfg.WriteTimeout > 0 /\ cfg.VerboseTicker > 0
ConnsInt64 == cfg.Conns <= MaxInt

\* C5: Validate rejects every config with C = 0, every config with C > R when
\* D = 0 and every config with C > R when R > 0 and D > 0; it never rejects a
\* config with R = 0, D > 0 and C >= 1 for its connection count; so every
\* accepted config with a request budget has C <= R.
C5_ConnectionLimit ==
    (Validated /\ BudgetsInRange /\ TimingInRange) =>
        /\ cfg.Conns = 0 => Rejected
        /\ (cfg.Conns > cfg.ReqTarget /\ cfg.Duration = 0) => Rejected
        /\ (cfg.Conns > cfg.ReqTarget /\ cfg.ReqTarget > 0 /\ cfg.Duration > 0)
              => Rejected
        /\ (cfg.ReqTarget = 0 /\ cfg.Duration > 0 /\ cfg.Conns >= 1)
              => verr # errConnLimit
        /\ (Accepted /\ cfg.ReqTarget > 0) => cfg.Conns <= cfg.ReqTarget

\* C6: every config Validate accepts has R >= 0 and D >= 0 with at least
\* one of them positive.
C6_BudgetsNonNegative ==
    (Accepted /\ TimingInRange /\ ConnsInt64) =>
        /\ cfg.ReqTarget >= 0
        /\ cfg.Duration >= 0
        /\ cfg.ReqTarget > 0 \/ cfg.Duration > 0

\* C7: Validate rejects a token source without a token header, a token
\* header without a token source and a token source with R = 0 (also when
\* D > 0); in a config it accepts SendJWT is true exactly when a token source
\* is configured.
C7_TokenHeaderAndSource ==
    LET source == cfg.JwtKey # "" \/ cfg.JwtsFilename # ""
    IN  Validated =>
          /\ (source /\ cfg.JwtHeader = "") => Rejected
          /\ (cfg.JwtHeader # "" /\ ~source) => Rejected
          /\ (source /\ cfg.ReqTarget = 0) => Rejected
          /\ Accepted => (cfg.SendJWT <=> source)

C7_Witness ==
    /\ Accepted
    /\ cfg.JwtKey = "" /\ cfg.JwtsFilename # ""
    /\ cfg.JwtHeader # ""
    /\ cfg.Duration > 0
    /\ cfg.SendJWT

\* C8: Validate accepts the timing fields exactly when the read timeout and
\* the write timeout are positive and, only if Verbose is set, the verbose
\* tick interval is positive: a zero tick interval is no ground for rejecting
\* a config whose Verbose is false, and no accepted config has a read or
\* write timeout <= 0.
C8_TimingFields ==
    (Validated /\ BudgetsInRange /\ ConnsInt64) =>
        /\ Accepted => (cfg.ReadTimeout > 0 /\ cfg.WriteTimeout > 0)
        /\ (Accepted /\ cfg.Verbose) => cfg.VerboseTicker > 0
        /\ ~cfg.Verbose => verr # "ticker value can't be zero"

\* A request URI that begins with http:// or https:// and a non-empty host.
BeginsWithHTTPHost(uri) ==
    \/ HasAt(uri, 1, <<"h","t","t","p",":","/","/">>)
         /\ Len(uri) >= 8 /\ uri[8] \notin {"/", ":"}
    \/ HasAt(uri, 1, <<"h","t","t","p","s",":","/","/">>)
         /\ Len(uri) >= 9 /\ uri[9] \notin {"/", ":"}

uriErrors == {"config: invalid request uri", "url not in correct format"}

====
